---- MODULE Spec2Model ----
(***************************************************************************)
(* goroyale: the request gateway of the RoyaleAPI client (client.go).      *)
(* Client.get consults checkRatelimit, issues one HTTP GET, reads the body *)
(* and feeds the response headers to updateRatelimit.                      *)
(*                                                                         *)
(* Strings that the code parses (header values) are sequences of one-      *)
(* character strings, so that strconv.Atoi / strconv.ParseInt are computed *)
(* digit by digit.  Time is the millisecond clock read by checkRatelimit.  *)
(*                                                                         *)
(* Spec is the gateway in use: a caller making one get after another.      *)
(* SpecFn applies the pure functions (New, the toQuery methods, the JSON   *)
(* decoding of requiredForUpgrade) to inputs drawn from bounded sets.      *)
(* SpecApi is a caller of the endpoint methods, which go through get.      *)
(* SpecConc is get called from several goroutines on one client, with the  *)
(* accesses to the rate-limit state as separate steps.                     *)
(*                                                                         *)
(* Record constructors list their fields in the order in which the field   *)
(* names first occur in this module, which is the order TLC keeps them in. *)
(***************************************************************************)
EXTENDS Integers, Sequences, FiniteSets, TLC

\* ---------------------------------------------------------------- bounds
\* Largest integer a rate-limit header carries in the explored responses.
MaxHdr == 1
\* Last value of the millisecond clock.
MaxNow == 2
\* Largest timeout, in milliseconds, handed to New.
MaxTimeout == 2
\* Largest page size and page index in an Args value.
MaxArg == 2

\* time.Second, with durations counted in milliseconds
Second == 1000

\* ------------------------------------------------------- strconv parsing
DigitChars == <<"0", "1", "2", "3", "4", "5", "6", "7", "8", "9">>

\* value of a character as a decimal digit, 10 when it is not a digit
\* (the code computes ch - '0' and rejects anything above 9)
DigitVal(ch) ==
    IF \E i \in 1..10 : DigitChars[i] = ch
    THEN (CHOOSE i \in 1..10 : DigitChars[i] = ch) - 1
    ELSE 10

RECURSIVE ParseDigits(_, _)
\* accumulates n = n*10 + digit over s; ok is FALSE at the first non digit
ParseDigits(s, n) ==
    IF s = <<>> THEN [n |-> n, ok |-> TRUE]
    ELSE IF DigitVal(Head(s)) > 9 THEN [n |-> 0, ok |-> FALSE]
    ELSE ParseDigits(Tail(s), n * 10 + DigitVal(Head(s)))

\* strconv.ParseInt(s, 10, 64): optional sign, then at least one digit and
\* digits only.  The explored strings are far shorter than 19 characters,
\* so the range error of a 64 bit result cannot arise.
ParseInt(s) ==
    IF s = <<>> THEN [n |-> 0, ok |-> FALSE]
    ELSE LET neg  == Head(s) = "-"
             rest == IF Head(s) = "-" \/ Head(s) = "+" THEN Tail(s) ELSE s
             p    == ParseDigits(rest, 0)
         IN  IF rest = <<>> \/ ~p.ok THEN [n |-> 0, ok |-> FALSE]
             ELSE [n |-> IF neg THEN 0 - p.n ELSE p.n, ok |-> TRUE]

\* strconv.Atoi(s): the same grammar, result of type int
Atoi(s) == ParseInt(s)

\* ------------------------------------------------------------ error values
NoError == [n |-> 0, type |-> "nil", op |-> ""]
\* fmt.Errorf("ratelimit, retry in: %d", reset-now)
RatelimitErrorf(ms) == [n |-> ms, type |-> "errorString", op |-> "ratelimit, retry in"]
\* the *strconv.NumError of a failed Atoi / ParseInt
NumError(fn) == [n |-> 0, type |-> "strconv.NumError", op |-> fn]
\* the *url.Error of http.NewRequest (op "parse") and of http.Client.Do (op "Get")
URLError(o) == [n |-> 0, type |-> "url.Error", op |-> o]
\* the error of ioutil.ReadAll when the body cannot be read to its end
ReadError == [n |-> 0, type |-> "io.error", op |-> "ReadAll"]

\* ------------------------------------------------------------------ state
VARIABLES
    ratelimit,   \* Client.ratelimit: [remaining, reset]
    now,         \* time.Now().UnixNano() / 1000000
    observed,    \* history: the integer of the latest well-formed remaining header sent
    last,        \* record of the latest Client.get call: inputs, environment, results
    fn,          \* record of the latest call of New or toQuery: arguments and results
    Token,       \* Client.Token
    newToken,    \* history: the token that was handed to New
    goroutines   \* the get each goroutine is in: where it is, its response

vars == <<ratelimit, now, observed, last, fn, Token, newToken, goroutines>>

\* ------------------------------------------------------------ the client
baseURL == "https://api.royaleapi.com"

\* the zero value of the ratelimit struct, as New leaves it
ZeroRatelimit == [remaining |-> 0, reset |-> 0]

\* names of the response headers read by updateRatelimit
HdrRemaining == "x-ratelimit-remaining"
HdrReset == "x-ratelimit-reset"
HeaderNames == {HdrRemaining, HdrReset}

\* http.Header.Get: the value stored under key, "" when there is none
HeaderGet(header, key) == IF key \in DOMAIN header THEN header[key] ELSE <<>>

\* variant: an exhausted window blocks without looking at the clock
checkRatelimit_NoClock(rl, t) ==
    IF rl.remaining # 0 \/ rl.reset = 0 THEN NoError
    ELSE RatelimitErrorf(rl.reset - t)

\* variant: the comparison with the clock is the wrong way round
checkRatelimit_Inverted(rl, t) ==
    IF rl.remaining = 0 /\ t > rl.reset THEN RatelimitErrorf(rl.reset - t)
    ELSE NoError

\* variant: a reset time in the future blocks whatever remaining is
checkRatelimit_ResetOnly(rl, t) ==
    IF rl.reset # 0 /\ t < rl.reset THEN RatelimitErrorf(rl.reset - t)
    ELSE NoError

checkRatelimit(rl, t) ==
    IF rl.remaining = 0 \/ rl.reset = 0 THEN NoError
    ELSE IF rl.remaining = 0 /\ t < rl.reset THEN RatelimitErrorf(rl.reset - t)
    ELSE NoError

\* variant: a parsed remaining of 0 is taken for "no value" and not stored
updateRatelimit_SkipZero(rl, header) ==
    LET remaining == HeaderGet(header, HdrRemaining)
        remainingI == Atoi(remaining)
        reset == HeaderGet(header, HdrReset)
        resetI == ParseInt(reset)
        rl1 == IF remaining # <<>> /\ remainingI.n # 0
               THEN [rl EXCEPT !.remaining = remainingI.n] ELSE rl
    IN  IF remaining # <<>> /\ ~remainingI.ok
        THEN [ratelimit |-> rl, err |-> NumError("Atoi")]
        ELSE IF reset # <<>> /\ ~resetI.ok
        THEN [ratelimit |-> rl1, err |-> NumError("ParseInt")]
        ELSE IF reset # <<>>
        THEN [ratelimit |-> [rl1 EXCEPT !.reset = resetI.n], err |-> NoError]
        ELSE [ratelimit |-> rl1, err |-> NoError]

\* variant: the fields are assigned without the test for an empty header
\* value, so an absent header stores the 0 that the failed parse yields
updateRatelimit_NoPresenceTest(rl, header) ==
    LET remaining == HeaderGet(header, HdrRemaining)
        remainingI == Atoi(remaining)
        reset == HeaderGet(header, HdrReset)
        resetI == ParseInt(reset)
        rl1 == [rl EXCEPT !.remaining = remainingI.n]
    IN  IF remaining # <<>> /\ ~remainingI.ok
        THEN [ratelimit |-> rl, err |-> NumError("Atoi")]
        ELSE IF reset # <<>> /\ ~resetI.ok
        THEN [ratelimit |-> rl1, err |-> NumError("ParseInt")]
        ELSE [ratelimit |-> [rl1 EXCEPT !.reset = resetI.n], err |-> NoError]

\* variant: the result of Atoi is stored before its error is looked at
updateRatelimit_StoreBeforeCheck(rl, header) ==
    LET remaining == HeaderGet(header, HdrRemaining)
        remainingI == Atoi(remaining)
        reset == HeaderGet(header, HdrReset)
        resetI == ParseInt(reset)
        rl1 == IF remaining # <<>> THEN [rl EXCEPT !.remaining = remainingI.n] ELSE rl
    IN  IF remaining # <<>> /\ ~remainingI.ok
        THEN [ratelimit |-> rl1, err |-> NumError("Atoi")]
        ELSE IF reset # <<>> /\ ~resetI.ok
        THEN [ratelimit |-> rl1, err |-> NumError("ParseInt")]
        ELSE IF reset # <<>>
        THEN [ratelimit |-> [rl1 EXCEPT !.reset = resetI.n], err |-> NoError]
        ELSE [ratelimit |-> rl1, err |-> NoError]

\* variant: the reset header is taken for a number of seconds
updateRatelimit_ResetInSeconds(rl, header) ==
    LET remaining == HeaderGet(header, HdrRemaining)
        remainingI == Atoi(remaining)
        reset == HeaderGet(header, HdrReset)
        resetI == ParseInt(reset)
        rl1 == IF remaining # <<>> THEN [rl EXCEPT !.remaining = remainingI.n] ELSE rl
    IN  IF remaining # <<>> /\ ~remainingI.ok
        THEN [ratelimit |-> rl, err |-> NumError("Atoi")]
        ELSE IF reset # <<>> /\ ~resetI.ok
        THEN [ratelimit |-> rl1, err |-> NumError("ParseInt")]
        ELSE IF reset # <<>>
        THEN [ratelimit |-> [rl1 EXCEPT !.reset = resetI.n * Second], err |-> NoError]
        ELSE [ratelimit |-> rl1, err |-> NoError]

\* result: the rate-limit state after the call and the error returned
updateRatelimit(rl, header) ==
    LET remaining == HeaderGet(header, HdrRemaining)
        remainingI == Atoi(remaining)
        reset == HeaderGet(header, HdrReset)
        resetI == ParseInt(reset)
        rl1 == IF remaining # <<>> THEN [rl EXCEPT !.remaining = remainingI.n] ELSE rl
    IN  IF remaining # <<>> /\ ~remainingI.ok
        THEN [ratelimit |-> rl, err |-> NumError("Atoi")]
        ELSE IF reset # <<>> /\ ~resetI.ok
        THEN [ratelimit |-> rl1, err |-> NumError("ParseInt")]
        ELSE IF reset # <<>>
        THEN [ratelimit |-> [rl1 EXCEPT !.reset = resetI.n], err |-> NoError]
        ELSE [ratelimit |-> rl1, err |-> NoError]

\* -------------------------------------------------------------------- New
\* variant: the timeout is passed on as it is, so 0 means no timeout
New_NoDefault(token, timeout) ==
    IF token = ""
    THEN [err |-> NoError, panicked |-> TRUE,
          c |-> [ratelimit |-> ZeroRatelimit, Token |-> "", Timeout |-> 0]]
    ELSE [err |-> NoError, panicked |-> FALSE,
          c |-> [ratelimit |-> ZeroRatelimit, Token |-> token, Timeout |-> timeout]]

\* result: whether the call panicked, and otherwise the client c (Token,
\* the Timeout of its http.Client, its ratelimit) and the named result err,
\* which New never assigns
New(token, timeout) ==
    IF token = ""
    THEN [err |-> NoError, panicked |-> TRUE,
          c |-> [ratelimit |-> ZeroRatelimit, Token |-> "", Timeout |-> 0]]
    ELSE [err |-> NoError, panicked |-> FALSE,
          c |-> [ratelimit |-> ZeroRatelimit, Token |-> token,
                 Timeout |-> IF timeout = 0 THEN 10 * Second ELSE timeout]]

\* arguments of New
Tokens == {"", "API KEY", "KEY 2"}
Timeouts == 0..MaxTimeout

\* ----------------------------------------------------------- Args.toQuery
\* Text that toQuery builds is a sequence of pieces: a word (letters only,
\* kept whole), a single character given by its code point, or the percent
\* escape of a byte.
Word(w) == [n |-> 0, kind |-> "word", text |-> w]
Char(cp) == [n |-> cp, kind |-> "char", text |-> ""]
Pct(b) == [n |-> b, kind |-> "pct", text |-> ""]

\* a []string: nil, or a slice with the given elements
NilSlice == [elems |-> <<>>, isNil |-> TRUE]
Slice(es) == [elems |-> es, isNil |-> FALSE]

RECURSIVE Join(_, _)
\* strings.Join(elems, sep), each element a word
Join(es, sep) ==
    IF es = <<>> THEN <<>>
    ELSE IF Len(es) = 1 THEN <<Word(es[1])>>
    ELSE <<Word(es[1]), sep>> \o Join(Tail(es), sep)

Comma == Char(44)

\* the conversion string(i) of an int: the one-character string whose code
\* point is i, U+FFFD when i is not a valid code point
StringOfInt(i) == IF i < 0 \/ i > 1114111 THEN <<Char(65533)>> ELSE <<Char(i)>>

\* url.Values.Set on a map that holds one value per key
ValuesSet(q, key, v) == [k \in DOMAIN q \cup {key} |-> IF k = key THEN v ELSE q[k]]
NoValues == [k \in {} |-> <<>>]

\* variant: page is set without the test for zero
toQuery_AlwaysPage(args) ==
    LET q0 == NoValues
        q1 == IF ~args.Keys.isNil THEN ValuesSet(q0, "keys", Join(args.Keys.elems, Comma))
              ELSE q0
        q2 == IF ~args.Exclude.isNil
              THEN ValuesSet(q1, "exclude", Join(args.Keys.elems, Comma))
              ELSE q1
        q3 == IF args.Max # 0 THEN ValuesSet(q2, "max", StringOfInt(args.Max)) ELSE q2
    IN  ValuesSet(q3, "page", StringOfInt(args.Page))

toQuery(args) ==
    LET q0 == NoValues
        q1 == IF ~args.Keys.isNil THEN ValuesSet(q0, "keys", Join(args.Keys.elems, Comma))
              ELSE q0
        q2 == IF ~args.Exclude.isNil
              THEN ValuesSet(q1, "exclude", Join(args.Keys.elems, Comma))
              ELSE q1
        q3 == IF args.Max # 0 THEN ValuesSet(q2, "max", StringOfInt(args.Max)) ELSE q2
    IN  IF args.Page # 0 THEN ValuesSet(q3, "page", StringOfInt(args.Page)) ELSE q3

\* ClanSearchArgs.toQuery; args holds the promoted fields of the embedded
\* Args next to its own
ClanSearchArgs_toQuery(args) ==
    LET q0 == NoValues
        q1 == IF ~args.Keys.isNil THEN ValuesSet(q0, "keys", Join(args.Keys.elems, Comma))
              ELSE q0
        q2 == IF ~args.Exclude.isNil
              THEN ValuesSet(q1, "exclude", Join(args.Keys.elems, Comma))
              ELSE q1
        q3 == IF args.Max # 0 THEN ValuesSet(q2, "max", StringOfInt(args.Max)) ELSE q2
        q4 == IF args.Page # 0 THEN ValuesSet(q3, "page", StringOfInt(args.Page)) ELSE q3
        q5 == IF args.Name # "" THEN ValuesSet(q4, "name", <<Word(args.Name)>>) ELSE q4
        q6 == IF args.MinScore # 0
              THEN ValuesSet(q5, "score", StringOfInt(args.MinScore)) ELSE q5
        q7 == IF args.MinMembers # 0
              THEN ValuesSet(q6, "minMembers", StringOfInt(args.MinMembers)) ELSE q6
        q8 == IF args.MaxMembers # 0
              THEN ValuesSet(q7, "maxMembers", StringOfInt(args.MaxMembers)) ELSE q7
    IN  IF args.LocationID # 0
        THEN ValuesSet(q8, "locationId", StringOfInt(args.LocationID)) ELSE q8

\* TournamentSearchArgs.toQuery
TournamentSearchArgs_toQuery(args) ==
    LET q0 == NoValues
        q1 == IF ~args.Keys.isNil THEN ValuesSet(q0, "keys", Join(args.Keys.elems, Comma))
              ELSE q0
        q2 == IF ~args.Exclude.isNil
              THEN ValuesSet(q1, "exclude", Join(args.Keys.elems, Comma))
              ELSE q1
        q3 == IF args.Max # 0 THEN ValuesSet(q2, "max", StringOfInt(args.Max)) ELSE q2
        q4 == IF args.Page # 0 THEN ValuesSet(q3, "page", StringOfInt(args.Page)) ELSE q3
    IN  IF args.Name # "" THEN ValuesSet(q4, "name", <<Word(args.Name)>>) ELSE q4

\* the call args.toQuery() on a value of the interface params: the method of
\* the dynamic type, told here by the fields the value has
params_toQuery(args) ==
    IF "LocationID" \in DOMAIN args THEN ClanSearchArgs_toQuery(args)
    ELSE IF "Name" \in DOMAIN args THEN TournamentSearchArgs_toQuery(args)
    ELSE toQuery(args)

\* url.QueryEscape of one piece: letters, digits and - . _ ~ stay, a space
\* becomes +, any other byte below 128 becomes its percent escape
EscapePiece(p) ==
    IF p.kind # "char" THEN p
    ELSE IF p.n = 32 THEN Char(43)
    ELSE IF \/ p.n \in 48..57 \/ p.n \in 65..90 \/ p.n \in 97..122
            \/ p.n \in {45, 46, 95, 126}
    THEN p
    ELSE Pct(p.n)

QueryEscape(v) == [i \in 1..Len(v) |-> EscapePiece(v[i])]

\* the keys toQuery can set, in the sorted order in which Encode writes them
SortedKeys ==
    <<"exclude", "keys", "locationId", "max", "maxMembers", "minMembers", "name", "page",
      "score">>

RECURSIVE EncodeFrom(_, _, _)
\* url.Values.Encode from the i-th sorted key on; buf is what is written so
\* far: key=value pairs, an & before each pair but the first
EncodeFrom(q, i, buf) ==
    IF i > Len(SortedKeys) THEN buf
    ELSE IF SortedKeys[i] \notin DOMAIN q THEN EncodeFrom(q, i + 1, buf)
    ELSE EncodeFrom(q, i + 1,
            buf \o (IF buf = <<>> THEN <<>> ELSE <<Char(38)>>)
                \o <<Word(SortedKeys[i]), Char(61)>> \o QueryEscape(q[SortedKeys[i]]))

Encode(q) == IF DOMAIN q = {} THEN <<>> ELSE EncodeFrom(q, 1, <<>>)

\* Args values handed to toQuery
Slices == {NilSlice, Slice(<<>>), Slice(<<"name">>), Slice(<<"name", "tag">>)}
ArgsInputs == [Keys : Slices, Exclude : Slices, Max : 0..MaxArg, Page : 0..MaxArg]
ZeroArgs == [Keys |-> NilSlice, Exclude |-> NilSlice, Max |-> 0, Page |-> 0]
\* ClanSearchArgs and TournamentSearchArgs values handed to toQuery
EmbeddedArgs ==
    {a \in [Keys : {NilSlice, Slice(<<"name">>)}, Exclude : {NilSlice, Slice(<<"tag">>)},
            Max : 0..1, Page : 0..1] : a.Max = a.Page}
\* MinMembers, MaxMembers, LocationID
MemberInputs == {<<0, 0, 0>>, <<1, 0, 0>>, <<0, 1, 0>>, <<0, 0, 1>>, <<1, 1, 1>>}
Names == {"", "clan"}
ClanSearchArgsInputs ==
    {[Keys |-> e.Keys, Exclude |-> e.Exclude, Max |-> e.Max, Page |-> e.Page,
      Name |-> name, MinScore |-> score, MinMembers |-> m[1], MaxMembers |-> m[2],
      LocationID |-> m[3]] :
        e \in EmbeddedArgs, name \in Names, score \in 0..MaxArg,
        m \in MemberInputs}
TournamentSearchArgsInputs ==
    {[Keys |-> e.Keys, Exclude |-> e.Exclude, Max |-> e.Max, Page |-> e.Page,
      Name |-> name] : e \in EmbeddedArgs, name \in Names}
\* the embedded Args of a search-args value
EmbeddedOf(args) ==
    [Keys |-> args.Keys, Exclude |-> args.Exclude, Max |-> args.Max, Page |-> args.Page]

\* Args values handed to get
GetArgs == {ZeroArgs}

\* ------------------------------------- requiredForUpgrade.UnmarshalJSON
\* The bytes b of one JSON value, as the decoder hands them to the method,
\* are a sequence of one-character strings.
Quote == "\""
JSONNull == <<"n", "u", "l", "l">>
JSONTypeError == [n |-> 0, type |-> "json.UnmarshalTypeError", op |-> "Unmarshal"]

\* json.Unmarshal(b, (*int)(r)): null leaves the int alone, an integer is
\* stored, any other value is an error and stores nothing
json_Unmarshal(r, b) ==
    IF b = JSONNull THEN [err |-> NoError, r |-> r]
    ELSE IF ParseInt(b).ok THEN [err |-> NoError, r |-> ParseInt(b).n]
    ELSE [err |-> JSONTypeError, r |-> r]

\* variant: the string form is not intercepted
UnmarshalJSON_NoStringCase(r, b) == json_Unmarshal(r, b)

\* result: the value of *r afterwards and the error returned
UnmarshalJSON(r, b) ==
    IF b[1] = Quote THEN [err |-> NoError, r |-> 0 - 1]
    ELSE json_Unmarshal(r, b)

\* JSON values met in the field: strings, integers n, null, and values of
\* another type
JSONStrings ==
    {[n |-> 0, kind |-> "string", text |-> t] :
        t \in {<<Quote, "M", "a", "x", "e", "d", Quote>>, <<Quote, Quote>>,
                <<Quote, "5", Quote>>}}
JSONInts ==
    {[n |-> i, kind |-> "int", text |-> <<DigitChars[i + 1]>>] : i \in 0..MaxArg}
    \cup {[n |-> 0 - 1, kind |-> "int", text |-> <<"-", "1">>],
          [n |-> 12, kind |-> "int", text |-> <<"1", "2">>]}
JSONOthers ==
    {[n |-> 0, kind |-> "null", text |-> JSONNull],
     [n |-> 0, kind |-> "other", text |-> <<"t", "r", "u", "e">>],
     [n |-> 0, kind |-> "other", text |-> <<"1", ".", "5">>]}
JSONInputs == JSONStrings \cup JSONInts \cup JSONOthers
\* values the field holds before decoding
FieldValues == {0, 3}

\* ------------------------------------------------ inputs and environment
\* routes handed to get; the last one has a malformed percent escape
RoutePaths == {"/version"}
MalformedPaths == {"/player/%zz"}
Paths == RoutePaths \cup MalformedPaths
\* http.NewRequest fails when url.Parse rejects the URL: a % that is not
\* followed by two hexadecimal digits.  Every URL handed to it starts with
\* baseURL, which has no %, so the search starts behind it.
HexChars ==
    {"0", "1", "2", "3", "4", "5", "6", "7", "8", "9",
     "a", "b", "c", "d", "e", "f", "A", "B", "C", "D", "E", "F"}
NewRequestFails(url) ==
    \E i \in (Len(baseURL) + 1)..Len(url) :
        /\ SubSeq(url, i, i) = "%"
        /\ ~(/\ i + 2 <= Len(url)
              /\ SubSeq(url, i + 1, i + 1) \in HexChars
              /\ SubSeq(url, i + 2, i + 2) \in HexChars)

\* what the service puts in a rate-limit header: nothing, an integer n
\* written in decimal, or text that is not an integer
HdrAbsent == [n |-> 0, kind |-> "absent", text |-> <<>>]
HdrInts ==
    {[n |-> i, kind |-> "int", text |-> <<DigitChars[i + 1]>>] : i \in 0..MaxHdr}
    \cup {[n |-> 0 - 1, kind |-> "int", text |-> <<"-", "1">>],
          [n |-> 12, kind |-> "int", text |-> <<"1", "2">>]}
HdrMalformed == {[n |-> 0, kind |-> "malformed", text |-> <<"1", "x">>]}
HdrInputs == {HdrAbsent} \cup HdrInts \cup HdrMalformed

StatusCodes == {200, 429}
\* the response body, in chunks as ioutil.ReadAll receives them
Body == <<"b1", "b2">>

\* the environment of one get: whether client.Do fails, and otherwise the
\* response and how many chunks ReadAll obtains before end of file or error
MkHeader(hRem, hReset) ==
    [k \in {h \in HeaderNames : (IF h = HdrRemaining THEN hRem ELSE hReset).kind # "absent"}
        |-> IF k = HdrRemaining THEN hRem.text ELSE hReset.text]

NoResponse == [header |-> MkHeader(HdrAbsent, HdrAbsent), status |-> 0, transport |-> "fail",
               body |-> <<>>, readN |-> 0, readErr |-> FALSE]

Response(status, hRem, hReset, readErr) ==
    [header |-> MkHeader(hRem, hReset), status |-> status, transport |-> "ok",
     body |-> Body, readN |-> IF readErr THEN 1 ELSE Len(Body), readErr |-> readErr]

\* ------------------------------------------------------------ Client.get
\* the request handed to client.Do: what http.NewRequest built from the
\* method, the URL and the body (nil here), with the header added to it and
\* the encoded query
NoBody == <<>>
Request(method, url, header, rawQuery) ==
    [header |-> header, url |-> url, body |-> NoBody, method |-> method,
     RawQuery |-> rawQuery]
\* no request was built
NoRequest == Request("", "", [k \in {} |-> ""], <<>>)

\* variant: the error of updateRatelimit is not assigned to err
get_DropsUpdateErr(rl, token, t, path, args, env) ==
    LET chk == checkRatelimit(rl, t)
        upd == updateRatelimit(rl, env.header)
    IN  IF chk # NoError
        THEN [ratelimit |-> rl, Token |-> token, err |-> chk, bytes |-> <<>>,
              requests |-> 0, received |-> FALSE, updates |-> 0,
              req |-> NoRequest]
        ELSE IF NewRequestFails(baseURL \o path)
        THEN [ratelimit |-> rl, Token |-> token, err |-> URLError("parse"),
              bytes |-> <<>>, requests |-> 0, received |-> FALSE, updates |-> 0,
              req |-> NoRequest]
        ELSE IF env.transport = "fail"
        THEN [ratelimit |-> rl, Token |-> token, err |-> URLError("Get"),
              bytes |-> <<>>, requests |-> 1, received |-> FALSE, updates |-> 0,
              req |-> Request("GET", baseURL \o path, "auth" :> token,
                             Encode(params_toQuery(args)))]
        ELSE [ratelimit |-> upd.ratelimit,
              Token |-> token,
              err |-> IF env.readErr THEN ReadError ELSE NoError,
              bytes |-> SubSeq(env.body, 1, env.readN), requests |-> 1, received |-> TRUE, updates |-> 1,
              req |-> Request("GET", baseURL \o path, "auth" :> token,
                             Encode(params_toQuery(args)))]

\* variant: a request that got no response is counted against the quota
get_CountsFailedRequest(rl, token, t, path, args, env) ==
    LET chk == checkRatelimit(rl, t)
        upd == updateRatelimit(rl, env.header)
    IN  IF chk # NoError
        THEN [ratelimit |-> rl, Token |-> token, err |-> chk, bytes |-> <<>>,
              requests |-> 0, received |-> FALSE, updates |-> 0,
              req |-> NoRequest]
        ELSE IF NewRequestFails(baseURL \o path)
        THEN [ratelimit |-> rl, Token |-> token, err |-> URLError("parse"),
              bytes |-> <<>>, requests |-> 0, received |-> FALSE, updates |-> 0,
              req |-> NoRequest]
        ELSE IF env.transport = "fail"
        THEN [ratelimit |-> [rl EXCEPT !.remaining = @ - 1], Token |-> token,
              err |-> URLError("Get"), bytes |-> <<>>, requests |-> 1, received |-> FALSE, updates |-> 0,
              req |-> Request("GET", baseURL \o path, "auth" :> token,
                             Encode(params_toQuery(args)))]
        ELSE [ratelimit |-> upd.ratelimit, Token |-> token,
              err |-> upd.err, bytes |-> SubSeq(env.body, 1, env.readN),
              requests |-> 1, received |-> TRUE, updates |-> 1,
              req |-> Request("GET", baseURL \o path, "auth" :> token,
                             Encode(params_toQuery(args)))]

\* variant: a failed ReadAll returns before the rate-limit update
get_ReturnsOnReadError(rl, token, t, path, args, env) ==
    LET chk == checkRatelimit(rl, t)
        upd == updateRatelimit(rl, env.header)
    IN  IF chk # NoError
        THEN [ratelimit |-> rl, Token |-> token, err |-> chk, bytes |-> <<>>,
              requests |-> 0, received |-> FALSE, updates |-> 0,
              req |-> NoRequest]
        ELSE IF NewRequestFails(baseURL \o path)
        THEN [ratelimit |-> rl, Token |-> token, err |-> URLError("parse"),
              bytes |-> <<>>, requests |-> 0, received |-> FALSE, updates |-> 0,
              req |-> NoRequest]
        ELSE IF env.transport = "fail"
        THEN [ratelimit |-> rl, Token |-> token, err |-> URLError("Get"),
              bytes |-> <<>>, requests |-> 1, received |-> FALSE, updates |-> 0,
              req |-> Request("GET", baseURL \o path, "auth" :> token,
                             Encode(params_toQuery(args)))]
        ELSE IF env.readErr
        THEN [ratelimit |-> rl, Token |-> token,
              err |-> ReadError, bytes |-> SubSeq(env.body, 1, env.readN),
              requests |-> 1, received |-> TRUE, updates |-> 0,
              req |-> Request("GET", baseURL \o path, "auth" :> token,
                             Encode(params_toQuery(args)))]
        ELSE [ratelimit |-> upd.ratelimit, Token |-> token,
              err |-> upd.err, bytes |-> SubSeq(env.body, 1, env.readN),
              requests |-> 1, received |-> TRUE, updates |-> 1,
              req |-> Request("GET", baseURL \o path, "auth" :> token,
                             Encode(params_toQuery(args)))]

\* variant: a failed client.Do is tried a second time
get_RetriesTransport(rl, token, t, path, args, env) ==
    LET chk == checkRatelimit(rl, t)
        upd == updateRatelimit(rl, env.header)
    IN  IF chk # NoError
        THEN [ratelimit |-> rl, Token |-> token, err |-> chk, bytes |-> <<>>,
              requests |-> 0, received |-> FALSE, updates |-> 0,
              req |-> NoRequest]
        ELSE IF NewRequestFails(baseURL \o path)
        THEN [ratelimit |-> rl, Token |-> token, err |-> URLError("parse"),
              bytes |-> <<>>, requests |-> 0, received |-> FALSE, updates |-> 0,
              req |-> NoRequest]
        ELSE IF env.transport = "fail"
        THEN [ratelimit |-> rl, Token |-> token, err |-> URLError("Get"),
              bytes |-> <<>>, requests |-> 2, received |-> FALSE, updates |-> 0,
              req |-> Request("GET", baseURL \o path, "auth" :> token,
                             Encode(params_toQuery(args)))]
        ELSE [ratelimit |-> upd.ratelimit, Token |-> token,
              err |-> upd.err, bytes |-> SubSeq(env.body, 1, env.readN),
              requests |-> 1, received |-> TRUE, updates |-> 1,
              req |-> Request("GET", baseURL \o path, "auth" :> token,
                             Encode(params_toQuery(args)))]

\* variant: every request that was answered is counted against the quota
get_SpendsQuota(rl, token, t, path, args, env) ==
    LET chk == checkRatelimit(rl, t)
        upd == updateRatelimit(rl, env.header)
    IN  IF chk # NoError
        THEN [ratelimit |-> rl, Token |-> token, err |-> chk, bytes |-> <<>>,
              requests |-> 0, received |-> FALSE, updates |-> 0,
              req |-> NoRequest]
        ELSE IF NewRequestFails(baseURL \o path)
        THEN [ratelimit |-> rl, Token |-> token, err |-> URLError("parse"),
              bytes |-> <<>>, requests |-> 0, received |-> FALSE, updates |-> 0,
              req |-> NoRequest]
        ELSE IF env.transport = "fail"
        THEN [ratelimit |-> rl, Token |-> token, err |-> URLError("Get"),
              bytes |-> <<>>, requests |-> 1, received |-> FALSE, updates |-> 0,
              req |-> Request("GET", baseURL \o path, "auth" :> token,
                             Encode(params_toQuery(args)))]
        ELSE [ratelimit |-> [upd.ratelimit EXCEPT !.remaining = @ - 1], Token |-> token,
              err |-> upd.err, bytes |-> SubSeq(env.body, 1, env.readN),
              requests |-> 1, received |-> TRUE, updates |-> 1,
              req |-> Request("GET", baseURL \o path, "auth" :> token,
                             Encode(params_toQuery(args)))]

\* variant: the auth header is not added to the request
get_OmitsAuth(rl, token, t, path, args, env) ==
    LET chk == checkRatelimit(rl, t)
        upd == updateRatelimit(rl, env.header)
    IN  IF chk # NoError
        THEN [ratelimit |-> rl, Token |-> token, err |-> chk, bytes |-> <<>>,
              requests |-> 0, received |-> FALSE, updates |-> 0,
              req |-> NoRequest]
        ELSE IF NewRequestFails(baseURL \o path)
        THEN [ratelimit |-> rl, Token |-> token, err |-> URLError("parse"),
              bytes |-> <<>>, requests |-> 0, received |-> FALSE, updates |-> 0,
              req |-> NoRequest]
        ELSE IF env.transport = "fail"
        THEN [ratelimit |-> rl, Token |-> token, err |-> URLError("Get"),
              bytes |-> <<>>, requests |-> 1, received |-> FALSE, updates |-> 0,
              req |-> Request("GET", baseURL \o path, [k \in {} |-> ""],
                             Encode(params_toQuery(args)))]
        ELSE [ratelimit |-> upd.ratelimit, Token |-> token,
              err |-> upd.err, bytes |-> SubSeq(env.body, 1, env.readN),
              requests |-> 1, received |-> TRUE, updates |-> 1,
              req |-> Request("GET", baseURL \o path, [k \in {} |-> ""],
                             Encode(params_toQuery(args)))]

\* variant: the token is dropped once a response has been read
get_ClearsToken(rl, token, t, path, args, env) ==
    LET chk == checkRatelimit(rl, t)
        upd == updateRatelimit(rl, env.header)
    IN  IF chk # NoError
        THEN [ratelimit |-> rl, Token |-> token, err |-> chk, bytes |-> <<>>,
              requests |-> 0, received |-> FALSE, updates |-> 0,
              req |-> NoRequest]
        ELSE IF NewRequestFails(baseURL \o path)
        THEN [ratelimit |-> rl, Token |-> token, err |-> URLError("parse"),
              bytes |-> <<>>, requests |-> 0, received |-> FALSE, updates |-> 0,
              req |-> NoRequest]
        ELSE IF env.transport = "fail"
        THEN [ratelimit |-> rl, Token |-> token, err |-> URLError("Get"),
              bytes |-> <<>>, requests |-> 1, received |-> FALSE, updates |-> 0,
              req |-> Request("GET", baseURL \o path, "auth" :> token,
                             Encode(params_toQuery(args)))]
        ELSE [ratelimit |-> upd.ratelimit, Token |-> "",
              err |-> upd.err, bytes |-> SubSeq(env.body, 1, env.readN),
              requests |-> 1, received |-> TRUE, updates |-> 1,
              req |-> Request("GET", baseURL \o path, "auth" :> token,
                             Encode(params_toQuery(args)))]

\* result: rate-limit state afterwards, returned bytes and err, the number
\* of HTTP requests handed to client.Do, whether a response came back, the
\* number of calls of updateRatelimit, the client's Token afterwards and the
\* request that was sent
get(rl, token, t, path, args, env) ==
    LET chk == checkRatelimit(rl, t)
        upd == updateRatelimit(rl, env.header)
    IN  IF chk # NoError
        THEN [ratelimit |-> rl, Token |-> token, err |-> chk, bytes |-> <<>>,
              requests |-> 0, received |-> FALSE, updates |-> 0,
              req |-> NoRequest]
        ELSE IF NewRequestFails(baseURL \o path)
        THEN [ratelimit |-> rl, Token |-> token, err |-> URLError("parse"),
              bytes |-> <<>>, requests |-> 0, received |-> FALSE, updates |-> 0,
              req |-> NoRequest]
        ELSE IF env.transport = "fail"
        THEN [ratelimit |-> rl, Token |-> token, err |-> URLError("Get"),
              bytes |-> <<>>, requests |-> 1, received |-> FALSE, updates |-> 0,
              req |-> Request("GET", baseURL \o path, "auth" :> token,
                             Encode(params_toQuery(args)))]
        ELSE [ratelimit |-> upd.ratelimit, Token |-> token,
              err |-> upd.err, bytes |-> SubSeq(env.body, 1, env.readN),
              requests |-> 1, received |-> TRUE, updates |-> 1,
              req |-> Request("GET", baseURL \o path, "auth" :> token,
                             Encode(params_toQuery(args)))]

\* ------------------------------------------------------ endpoint methods
\* One entry per endpoint method: the path is prefix, then the method's tag
\* (or its tags joined by commas, or its location), then suffix; params is
\* the type of the args it hands to get.  GetAPIVersion has no args and
\* returns the bytes as a string, the others decode them as JSON.
E(prefix, takes, suffix, params) ==
    [prefix |-> prefix, takes |-> takes, suffix |-> suffix, params |-> params]

Endpoints ==
    "GetAPIVersion" :> E("/version", "none", "", "none") @@
    "GetConstants" :> E("/constants", "none", "", "Args") @@
    "GetPlayer" :> E("/player/", "tag", "", "Args") @@
    "GetPlayers" :> E("/player/", "tags", "", "Args") @@
    "GetPlayerBattles" :> E("/player/", "tag", "/battles", "Args") @@
    "GetPlayersBattles" :> E("/player/", "tags", "/battles", "Args") @@
    "GetPlayerChests" :> E("/player/", "tag", "/chests", "Args") @@
    "GetPlayersChests" :> E("/player/", "tags", "/chests", "Args") @@
    "ClanSearch" :> E("clan/search", "none", "", "ClanSearchArgs") @@
    "GetClan" :> E("/clan/", "tag", "", "Args") @@
    "GetClans" :> E("/clan/", "tags", "", "Args") @@
    "GetClanBattles" :> E("/clan/", "tag", "/battles", "Args") @@
    "GetClanWar" :> E("/clan/", "tag", "/war", "Args") @@
    "GetClanWarLog" :> E("/clan/", "tag", "/warlog", "Args") @@
    "GetClanHistory" :> E("/clan/", "tag", "/history", "Args") @@
    "GetClanWeeklyHistory" :> E("/clan/", "tag", "/history/weekly", "Args") @@
    "GetClanTracking" :> E("/clan/", "tag", "/tracking", "Args") @@
    "GetOpenTournaments" :> E("/tournaments/open", "none", "", "Args") @@
    "GetKnownTournaments" :> E("/tournaments/known", "none", "", "Args") @@
    "TournamentSearch" :> E("/tournaments/search", "none", "", "TournamentSearchArgs") @@
    "GetTournament" :> E("/tournaments/", "tag", "", "Args") @@
    "GetTournaments" :> E("/tournaments/", "tags", "", "Args") @@
    "GetTopClans" :> E("/top/clans/", "location", "", "Args") @@
    "GetTopPlayers" :> E("/top/players/", "location", "", "Args") @@
    "GetPopularClans" :> E("/popular/clans", "none", "", "Args") @@
    "GetPopularPlayers" :> E("/popular/players", "none", "", "Args") @@
    "GetPopularTournaments" :> E("/popular/tournaments", "none", "", "Args") @@
    "GetPopularDecks" :> E("/popular/decks", "none", "", "Args") @@
    "GetAPIKeyStats" :> E("/auth/stats", "none", "", "Args") @@
    "GetEndpoints" :> E("/endpoints", "none", "", "Args")

RECURSIVE JoinTags(_)
\* strings.Join(tags, ",")
JoinTags(tags) ==
    IF tags = <<>> THEN ""
    ELSE IF Len(tags) = 1 THEN tags[1]
    ELSE tags[1] \o "," \o JoinTags(Tail(tags))

\* the path an endpoint method builds from its argument a
EndpointPath(m, a) ==
    Endpoints[m].prefix
        \o (IF Endpoints[m].takes = "none" THEN ""
            ELSE IF Endpoints[m].takes = "tags" THEN JoinTags(a)
            ELSE a)
        \o Endpoints[m].suffix

\* the zero value of a result type, and json.Unmarshal of the bytes into it:
\* the whole body is a document of the expected shape, a truncated one is a
\* syntax error and stores nothing
ZeroValue == <<>>
JSONSyntaxError == [n |-> 0, type |-> "json.SyntaxError", op |-> "Unmarshal"]
Unmarshal(b) ==
    IF b = Body THEN [err |-> NoError, value |-> b]
    ELSE [err |-> JSONSyntaxError, value |-> ZeroValue]

\* variant: the bytes are decoded whatever get returned
endpoint_DecodesAnyway(m, rl, token, t, a, args, env) ==
    LET path == EndpointPath(m, a)
        g == get(rl, token, t, path, IF m = "GetAPIVersion" THEN ZeroArgs ELSE args, env)
    IN  IF m = "GetAPIVersion"
        THEN [err |-> g.err, path |-> path, get |-> g, value |-> g.bytes, decoded |-> FALSE]
        ELSE [err |-> Unmarshal(g.bytes).err, path |-> path, get |-> g,
              value |-> Unmarshal(g.bytes).value, decoded |-> TRUE]

\* an endpoint method m called with argument a and args; result: the path it
\* built, what get did, the error and the value it returns, and whether it
\* called json.Unmarshal
endpoint(m, rl, token, t, a, args, env) ==
    LET path == EndpointPath(m, a)
        g == get(rl, token, t, path, IF m = "GetAPIVersion" THEN ZeroArgs ELSE args, env)
    IN  IF m = "GetAPIVersion"
        THEN [err |-> g.err, path |-> path, get |-> g, value |-> IF g.err # NoError THEN ZeroValue ELSE g.bytes,
              decoded |-> FALSE]
        ELSE IF g.err = NoError
        THEN [err |-> Unmarshal(g.bytes).err, path |-> path, get |-> g,
              value |-> Unmarshal(g.bytes).value, decoded |-> TRUE]
        ELSE [err |-> g.err, path |-> path, get |-> g, value |-> ZeroValue,
              decoded |-> FALSE]

\* arguments of the endpoint methods: tags (one of them with a malformed
\* percent escape), tag lists, locations, and args of the method's type
EndpointArgInputs(m) ==
    IF Endpoints[m].takes = "tag" THEN {"2P0LYQ", "%zz"}
    ELSE IF Endpoints[m].takes = "tags" THEN {<<"2P0LYQ", "9ULGLRCL">>}
    ELSE IF Endpoints[m].takes = "location" THEN {"US"}
    ELSE {""}

EndpointParamsInputs(m) ==
    IF Endpoints[m].params = "ClanSearchArgs"
    THEN {x \in ClanSearchArgsInputs :
            /\ EmbeddedOf(x) = ZeroArgs /\ x.Name = "clan" /\ x.MinScore = 0
            /\ x.MinMembers = 0 /\ x.MaxMembers = 0 /\ x.LocationID = 0}
    ELSE IF Endpoints[m].params = "TournamentSearchArgs"
    THEN {x \in TournamentSearchArgsInputs : EmbeddedOf(x) = ZeroArgs /\ x.Name = "clan"}
    ELSE IF Endpoints[m].params = "Args" /\ Endpoints[m].takes = "none"
    THEN {ZeroArgs, [ZeroArgs EXCEPT !.Keys = Slice(<<"name">>)]}
    ELSE {ZeroArgs}

\* what the service does with the request of an endpoint call
EndpointEnvs ==
    {[hRem |-> HdrAbsent, hReset |-> HdrAbsent, env |-> NoResponse]}
    \cup {[hRem |-> h[1], hReset |-> h[2], env |-> Response(h[4], h[1], h[2], h[3])] :
            h \in {<<[n |-> 1, kind |-> "int", text |-> <<"1">>],
                     [n |-> 12, kind |-> "int", text |-> <<"1", "2">>], FALSE, 200>>,
                   <<[n |-> 0, kind |-> "malformed", text |-> <<"1", "x">>], HdrAbsent,
                     FALSE, 429>>,
                   <<HdrAbsent, HdrAbsent, TRUE, 200>>}}

\* ----------------------------------------- updateRatelimit, step by step
\* the first half of updateRatelimit: the remaining header (client.go:90-97)
updateRemaining(rl, header) ==
    LET remaining == HeaderGet(header, HdrRemaining)
        remainingI == Atoi(remaining)
    IN  IF remaining = <<>> THEN [ratelimit |-> rl, err |-> NoError]
        ELSE IF ~remainingI.ok THEN [ratelimit |-> rl, err |-> NumError("Atoi")]
        ELSE [ratelimit |-> [rl EXCEPT !.remaining = remainingI.n], err |-> NoError]

\* the second half: the reset header (client.go:98-106)
updateReset(rl, header) ==
    LET reset == HeaderGet(header, HdrReset)
        resetI == ParseInt(reset)
    IN  IF reset = <<>> THEN [ratelimit |-> rl, err |-> NoError]
        ELSE IF ~resetI.ok THEN [ratelimit |-> rl, err |-> NumError("ParseInt")]
        ELSE [ratelimit |-> [rl EXCEPT !.reset = resetI.n], err |-> NoError]

\* goroutines that share one client, and a goroutine that is not in get
Goroutines == {"g1", "g2"}
Idle == [err |-> NoError, env |-> NoResponse, pc |-> "idle", sawPartial |-> FALSE]

\* what the service answers to the get of a goroutine
GoEnvs ==
    {NoResponse}
    \cup {Response(200, hRem, hReset, FALSE) :
            hRem \in {HdrAbsent} \cup {h \in HdrInts : h.n \in 0..1},
            hReset \in {HdrAbsent} \cup {h \in HdrInts : h.n = 12}}

\* ---------------------------------------------------------------- actions
NoCall ==
    [op |-> "none", err |-> NoError, args |-> ZeroArgs, path |-> "", env |-> NoResponse,
     bytes |-> <<>>, requests |-> 0, received |-> FALSE, updates |-> 0,
     req |-> NoRequest, first |-> FALSE, pre |-> ZeroRatelimit, at |-> 0,
     sentRemaining |-> HdrAbsent, sentReset |-> HdrAbsent]

NoFn == [op |-> "none", arg |-> <<>>, res |-> <<>>]

\* the client as New returns it, for each of the tokens that New accepts
InitWith(tokens) ==
    /\ \E token \in tokens :
            /\ ~New(token, 0).panicked
            /\ Token = New(token, 0).c.Token
            /\ newToken = token
    /\ ratelimit = ZeroRatelimit
    /\ now = 1
    /\ observed = [n |-> 0, known |-> FALSE]
    /\ last = NoCall
    /\ fn = NoFn
    /\ goroutines = [g \in Goroutines |-> Idle]

\* a client constructed with one token; the callers of the endpoint methods
\* start from a client constructed with any token
Init == InitWith({"API KEY"})
InitApi == InitWith(Tokens)

\* the clock advances between calls
Tick ==
    /\ now < MaxNow
    /\ now' = now + 1
    /\ UNCHANGED <<ratelimit, observed, last, fn, Token, newToken, goroutines>>

\* one call of Client.get by the (single) caller
Get(path, args, env, hRem, hReset) ==
    \E r \in {get(ratelimit, Token, now, path, args, env)} :
        /\ ratelimit' = r.ratelimit
        /\ Token' = r.Token
        /\ last' = [op |-> "get", err |-> r.err, args |-> args,
                    path |-> path, env |-> env, bytes |-> r.bytes,
                    requests |-> r.requests, received |-> r.received,
                    updates |-> r.updates,
                    req |-> r.req, first |-> last.op = "none", pre |-> ratelimit,
                    at |-> now, sentRemaining |-> hRem, sentReset |-> hReset]
        /\ observed' = IF r.received /\ hRem.kind = "int"
                       THEN [n |-> hRem.n, known |-> TRUE]
                       ELSE observed
        /\ UNCHANGED <<now, fn, newToken, goroutines>>

\* the request cannot be built, or client.Do fails
GetNoResponse ==
    \E path \in Paths, args \in GetArgs : Get(path, args, NoResponse, HdrAbsent, HdrAbsent)

\* a response only exists for a request that could be built
GetResponse ==
    \E path \in RoutePaths, args \in GetArgs, status \in StatusCodes, hRem \in HdrInputs,
       hReset \in HdrInputs, readErr \in BOOLEAN :
        Get(path, args, Response(status, hRem, hReset, readErr), hRem, hReset)

Next == Tick \/ GetNoResponse \/ GetResponse

Spec == Init /\ [][Next]_vars

\* ------------------------------------------- New and toQuery on their own
CallNew ==
    /\ \E token \in Tokens, timeout \in Timeouts :
            fn' = [op |-> "New", arg |-> [token |-> token, timeout |-> timeout],
                   res |-> New(token, timeout)]
    /\ UNCHANGED <<ratelimit, now, observed, last, Token, newToken, goroutines>>

\* toQuery and the Encode that get applies to its result (client.go:121)
CallToQuery ==
    /\ \E args \in ArgsInputs :
            fn' = [op |-> "toQuery", arg |-> args,
                   res |-> [q |-> toQuery(args), RawQuery |-> Encode(toQuery(args))]]
    /\ UNCHANGED <<ratelimit, now, observed, last, Token, newToken, goroutines>>

CallClanSearchToQuery ==
    /\ \E args \in ClanSearchArgsInputs :
            fn' = [op |-> "ClanSearchArgs.toQuery", arg |-> args,
                   res |-> [q |-> ClanSearchArgs_toQuery(args),
                            RawQuery |-> Encode(params_toQuery(args))]]
    /\ UNCHANGED <<ratelimit, now, observed, last, Token, newToken, goroutines>>

CallTournamentSearchToQuery ==
    /\ \E args \in TournamentSearchArgsInputs :
            fn' = [op |-> "TournamentSearchArgs.toQuery", arg |-> args,
                   res |-> [q |-> TournamentSearchArgs_toQuery(args),
                            RawQuery |-> Encode(params_toQuery(args))]]
    /\ UNCHANGED <<ratelimit, now, observed, last, Token, newToken, goroutines>>

CallUnmarshalJSON ==
    /\ \E r \in FieldValues, b \in JSONInputs :
            fn' = [op |-> "UnmarshalJSON", arg |-> [b |-> b, r |-> r],
                   res |-> UnmarshalJSON(r, b.text)]
    /\ UNCHANGED <<ratelimit, now, observed, last, Token, newToken, goroutines>>

NextFn ==
    \/ CallNew
    \/ CallToQuery
    \/ CallClanSearchToQuery
    \/ CallTournamentSearchToQuery
    \/ CallUnmarshalJSON

SpecFn == Init /\ [][NextFn]_vars

\* ------------------------------------------- the endpoint methods in use
\* one call of an endpoint method by the (single) caller; last records the
\* get it made, fn the method's own arguments and results
CallEndpoint ==
    \E m \in DOMAIN Endpoints :
      \E a \in EndpointArgInputs(m), args \in EndpointParamsInputs(m), e \in EndpointEnvs :
        \E r \in {endpoint(m, ratelimit, Token, now, a, args, e.env)} :
            /\ ratelimit' = r.get.ratelimit
            /\ Token' = r.get.Token
            /\ last' = [op |-> "get", err |-> r.get.err,
                        args |-> IF m = "GetAPIVersion" THEN ZeroArgs ELSE args,
                        path |-> r.path, env |-> e.env, bytes |-> r.get.bytes,
                        requests |-> r.get.requests, received |-> r.get.received,
                        updates |-> r.get.updates,
                        req |-> r.get.req, first |-> last.op = "none", pre |-> ratelimit,
                        at |-> now, sentRemaining |-> e.hRem, sentReset |-> e.hReset]
            /\ observed' = IF r.get.received /\ e.hRem.kind = "int"
                           THEN [n |-> e.hRem.n, known |-> TRUE]
                           ELSE observed
            /\ fn' = [op |-> m, arg |-> [args |-> args, a |-> a],
                      res |-> [err |-> r.err, path |-> r.path, value |-> r.value,
                               decoded |-> r.decoded]]
            /\ UNCHANGED <<now, newToken, goroutines>>

NextApi == CallEndpoint

SpecApi == InitApi /\ [][NextApi]_vars

\* ------------------------------------- get called from several goroutines
\* Each goroutine runs Client.get on the shared client; the steps of
\* different goroutines interleave between the accesses to c.ratelimit, which
\* no lock guards.
GoCall(g) ==
    /\ goroutines[g].pc = "idle"
    /\ \E env \in GoEnvs :
            goroutines' = [goroutines EXCEPT ![g] = [Idle EXCEPT !.pc = "check", !.env = env]]
    /\ UNCHANGED <<ratelimit, now, observed, last, fn, Token, newToken>>

\* err = c.checkRatelimit(); sawPartial notes a check made while another
\* goroutine is between the two writes of updateRatelimit
GoCheck(g) ==
    /\ goroutines[g].pc = "check"
    /\ goroutines' =
            [goroutines EXCEPT
                ![g].err = checkRatelimit(ratelimit, now),
                ![g].pc = IF checkRatelimit(ratelimit, now) # NoError THEN "done" ELSE "do",
                ![g].sawPartial = \E h \in Goroutines \ {g} : goroutines[h].pc = "reset"]
    /\ UNCHANGED <<ratelimit, now, observed, last, fn, Token, newToken>>

\* c.client.Do(req) and the read of the body
GoDo(g) ==
    /\ goroutines[g].pc = "do"
    /\ goroutines' =
            [goroutines EXCEPT
                ![g].err = IF goroutines[g].env.transport = "fail" THEN URLError("Get")
                           ELSE NoError,
                ![g].pc = IF goroutines[g].env.transport = "fail" THEN "done"
                          ELSE "remaining"]
    /\ UNCHANGED <<ratelimit, now, observed, last, fn, Token, newToken>>

\* updateRatelimit up to the write of c.ratelimit.remaining
GoUpdateRemaining(g) ==
    /\ goroutines[g].pc = "remaining"
    /\ \E u \in {updateRemaining(ratelimit, goroutines[g].env.header)} :
            /\ ratelimit' = u.ratelimit
            /\ goroutines' = [goroutines EXCEPT
                                ![g].err = u.err,
                                ![g].pc = IF u.err # NoError THEN "done" ELSE "reset"]
    /\ UNCHANGED <<now, observed, last, fn, Token, newToken>>

\* the rest of updateRatelimit: the write of c.ratelimit.reset
GoUpdateReset(g) ==
    /\ goroutines[g].pc = "reset"
    /\ \E u \in {updateReset(ratelimit, goroutines[g].env.header)} :
            /\ ratelimit' = u.ratelimit
            /\ goroutines' = [goroutines EXCEPT ![g].err = u.err, ![g].pc = "done"]
    /\ UNCHANGED <<now, observed, last, fn, Token, newToken>>

\* get returns
GoReturn(g) ==
    /\ goroutines[g].pc = "done"
    /\ goroutines' = [goroutines EXCEPT ![g] = Idle]
    /\ UNCHANGED <<ratelimit, now, observed, last, fn, Token, newToken>>

NextConc ==
    \E g \in Goroutines :
        \/ GoCall(g)
        \/ GoCheck(g)
        \/ GoDo(g)
        \/ GoUpdateRemaining(g)
        \/ GoUpdateReset(g)
        \/ GoReturn(g)

SpecConc == Init /\ [][NextConc]_vars

\* ================================================================ claims
\* the error of a local rate-limit denial (checkRatelimit's fmt.Errorf)
IsRatelimitError(e) == e.type = "errorString" /\ e.op = "ratelimit, retry in"

\* the call got as far as client.Do exactly once, unless the request could
\* not be built from the path
IssuedRequest == ~NewRequestFails(baseURL \o last.path) => last.requests = 1

\* C1: a get made while remaining = 0 and the reset time is still in the
\* future returns a rate-limit error and performs no HTTP request.
C1_ExhaustedWindowBlocks ==
    (last.op = "get" /\ last.pre.remaining = 0 /\ last.pre.reset > last.at)
        => (IsRatelimitError(last.err) /\ last.requests = 0)

\* C2: a get made while remaining = 0 and the reset time has passed, or no
\* reset time is known, passes admission and goes on to issue the request.
C2_ExpiredOrUnknownAdmits ==
    (last.op = "get" /\ last.pre.remaining = 0
        /\ (last.pre.reset = 0 \/ last.pre.reset <= last.at))
        => (~IsRatelimitError(last.err) /\ IssuedRequest)

C2_Witness ==
    /\ last.op = "get" /\ ~last.first
    /\ last.pre.remaining = 0 /\ last.pre.reset > 0 /\ last.pre.reset <= last.at
    /\ last.requests = 1

\* C3: the first get of a freshly constructed client passes admission and
\* attempts the HTTP request.
C3_FreshClientAdmits ==
    (last.op = "get" /\ last.first)
        => (last.pre = ZeroRatelimit /\ ~IsRatelimitError(last.err) /\ IssuedRequest)

C3_Witness == last.op = "get" /\ last.first /\ last.requests = 1 /\ last.received

\* C4: a get made while remaining > 0 passes admission, whether the reset
\* time is unset, past or future.
C4_HasQuotaAdmits ==
    (last.op = "get" /\ last.pre.remaining > 0)
        => (~IsRatelimitError(last.err) /\ IssuedRequest)

C4_Witness ==
    /\ last.op = "get" /\ last.pre.remaining > 0 /\ last.pre.reset > last.at
    /\ last.requests = 1

\* C5: remaining is the integer of the most recent response whose remaining
\* header was a well-formed integer; responses without one leave it alone.
C5_RemainingIsLastWrite == observed.known => ratelimit.remaining = observed.n

C5_Witness ==
    /\ last.received /\ last.sentRemaining.kind = "int" /\ last.sentRemaining.n = 0
    /\ last.pre.remaining > 0 /\ ratelimit.remaining = 0

\* C6: an update from a response leaves alone each field whose header the
\* response does not carry (it is not put back to the unknown value).
C6_AbsentHeaderKeepsField ==
    (last.op = "get" /\ last.received)
        => /\ last.sentRemaining.kind = "absent" => ratelimit.remaining = last.pre.remaining
           /\ last.sentReset.kind = "absent" => ratelimit.reset = last.pre.reset

C6_Witness ==
    /\ last.received /\ last.sentRemaining.kind = "absent" /\ last.sentReset.kind = "int"
    /\ last.pre.remaining # 0 /\ ratelimit.remaining = last.pre.remaining
    /\ ratelimit.reset # last.pre.reset

\* C7: when a received response carries a rate-limit header that is not an
\* integer, get returns the parse error of the update step.
C7_MalformedHeaderIsReturned ==
    (last.op = "get" /\ last.received
        /\ (last.sentRemaining.kind = "malformed" \/ last.sentReset.kind = "malformed"))
        => last.err.type = "strconv.NumError"

C7_Witness ==
    /\ last.received /\ last.sentRemaining.kind = "int" /\ last.sentReset.kind = "malformed"
    /\ last.err = NumError("ParseInt")

\* C8: a failed update changes only what was parsed before the failure: a
\* malformed remaining header leaves both fields, a malformed reset header
\* leaves the reset time and keeps the remaining value just stored.
C8_FailedUpdateIsPartial ==
    (last.op = "get" /\ last.received /\ last.err.type = "strconv.NumError")
        => /\ last.sentRemaining.kind = "malformed" => ratelimit = last.pre
           /\ (last.sentRemaining.kind = "int" /\ last.sentReset.kind = "malformed")
                => (ratelimit.remaining = last.sentRemaining.n
                    /\ ratelimit.reset = last.pre.reset)
           /\ (last.sentRemaining.kind = "absent" /\ last.sentReset.kind = "malformed")
                => ratelimit = last.pre

C8_Witness ==
    /\ last.received /\ last.err = NumError("Atoi")
    /\ last.sentRemaining.kind = "malformed" /\ last.sentReset.kind = "int"
    /\ last.sentReset.n # last.pre.reset /\ last.pre.remaining # 0
    /\ ratelimit = last.pre

\* C9: when client.Do fails (no response), get returns an error and the
\* rate-limit state is what it was before the call.
C9_TransportFailureKeepsState ==
    (last.op = "get" /\ last.requests = 1 /\ last.env.transport = "fail")
        => (last.err # NoError /\ ~last.received /\ ratelimit = last.pre)

C9_Witness ==
    /\ last.op = "get" /\ last.requests = 1 /\ last.env.transport = "fail"
    /\ last.pre.remaining # 0 /\ last.pre.reset # 0

\* C10: a response with a non-success status makes get return an APIError
\* and no bytes.
C10_ErrorStatusYieldsAPIError ==
    (last.op = "get" /\ last.received /\ last.env.status # 200)
        => (last.err.type = "APIError" /\ last.bytes = <<>>)

\* C11: every get that receives a response, whatever its status and
\* whether or not the body could be read, runs the rate-limit update on the
\* response's headers before it returns.
C11_ResponseIsAlwaysFedToUpdate ==
    (last.op = "get" /\ last.received)
        => /\ last.updates = 1
           /\ last.sentRemaining.kind = "int" => ratelimit.remaining = last.sentRemaining.n
           /\ (last.sentRemaining.kind # "malformed" /\ last.sentReset.kind = "int")
                => ratelimit.reset = last.sentReset.n

C11_Witness ==
    /\ last.op = "get" /\ last.received /\ last.env.status # 200 /\ last.env.readErr
    /\ last.updates = 1 /\ last.sentRemaining.kind = "int"
    /\ ratelimit.remaining # last.pre.remaining

\* C12: New with an empty token returns a configuration error to its caller
\* and does not panic.
C12_EmptyTokenReturnsError ==
    (fn.op = "New" /\ fn.arg.token = "")
        => (~fn.res.panicked /\ fn.res.err # NoError)

\* C13: New with a non-empty token returns a nil error and a client whose
\* Token is the argument and whose timeout is 10 seconds for timeout 0 and
\* the given timeout otherwise.
C13_NewBuildsClient ==
    (fn.op = "New" /\ fn.arg.token # "")
        => /\ ~fn.res.panicked /\ fn.res.err = NoError
           /\ fn.res.c.Token = fn.arg.token
           /\ fn.arg.timeout = 0 => fn.res.c.Timeout = 10000
           /\ fn.arg.timeout # 0 => fn.res.c.Timeout = fn.arg.timeout

C13_Witness ==
    /\ fn.op = "New" /\ fn.arg.token = "API KEY" /\ fn.arg.timeout = 0
    /\ fn.res.c.Timeout = 10000

RECURSIVE Itoa(_)
\* strconv.Itoa of a non-negative int: its decimal digits
Itoa(i) ==
    IF i < 10 THEN <<Char(48 + i)>>
    ELSE Itoa(i \div 10) \o <<Char(48 + (i % 10))>>

\* C17: whenever Exclude is set, the exclude parameter is the comma-joined
\* Exclude list; Exclude = ["name"] alone encodes to exactly exclude=name.
C17_ExcludeIsJoinedExcludeList ==
    (fn.op = "toQuery" /\ ~fn.arg.Exclude.isNil)
        => /\ "exclude" \in DOMAIN fn.res.q
           /\ fn.res.q["exclude"] = Join(fn.arg.Exclude.elems, Comma)
           /\ fn.arg = [ZeroArgs EXCEPT !.Exclude = Slice(<<"name">>)]
                => fn.res.RawQuery = <<Word("exclude"), Char(61), Word("name")>>

\* C18: an Args value with every field at its zero value sets no key and
\* encodes to the empty query string.
C18_ZeroArgsEncodeEmpty ==
    (fn.op = "toQuery" /\ fn.arg = ZeroArgs)
        => (DOMAIN fn.res.q = {} /\ fn.res.RawQuery = <<>>)

C18_Witness == fn.op = "toQuery" /\ fn.arg = ZeroArgs /\ Len(fn.res.RawQuery) = 0

\* C19: the query has the key keys, exclude, max or page exactly when the
\* field is non-nil / non-zero; keys is the comma-joined Keys list, max and
\* page are the decimal digits of the integers.
C19_KeysPresentAndDecimal ==
    fn.op = "toQuery"
        => /\ "keys" \in DOMAIN fn.res.q <=> ~fn.arg.Keys.isNil
           /\ "exclude" \in DOMAIN fn.res.q <=> ~fn.arg.Exclude.isNil
           /\ "max" \in DOMAIN fn.res.q <=> fn.arg.Max # 0
           /\ "page" \in DOMAIN fn.res.q <=> fn.arg.Page # 0
           /\ ~fn.arg.Keys.isNil => fn.res.q["keys"] = Join(fn.arg.Keys.elems, Comma)
           /\ fn.arg.Max # 0 => fn.res.q["max"] = Itoa(fn.arg.Max)
           /\ fn.arg.Page # 0 => fn.res.q["page"] = Itoa(fn.arg.Page)

\* C14: the state reached after a response carrying
\* x-ratelimit-remaining: 0 is never the state of a fresh client.
C14_ZeroReportedDiffersFromFresh ==
    (last.op = "get" /\ last.received
        /\ last.sentRemaining.kind = "int" /\ last.sentRemaining.n = 0)
        => ratelimit # ZeroRatelimit

\* C15 (as claimed): an integer s in the reset / retry-after header sets
\* the reset time to the time of the update plus s seconds.
C15_ResetIsUpdateTimePlusSeconds ==
    (last.op = "get" /\ last.received
        /\ last.sentRemaining.kind # "malformed" /\ last.sentReset.kind = "int")
        => ratelimit.reset = last.at + last.sentReset.n * Second

\* C15 (amended): an integer v in the x-ratelimit-reset header is stored as
\* the reset time as it is, an absolute time on the millisecond clock.
C15_ResetIsHeaderValue ==
    (last.op = "get" /\ last.received
        /\ last.sentRemaining.kind # "malformed" /\ last.sentReset.kind = "int")
        => ratelimit.reset = last.sentReset.n

C15_Witness ==
    /\ last.op = "get" /\ last.received /\ last.sentReset.kind = "int"
    /\ last.sentReset.n > last.at /\ last.pre.reset # last.sentReset.n
    /\ ratelimit.reset = last.sentReset.n

\* C16: a get denied locally (window exhausted, reset time in the future)
\* returns a RatelimitError whose RetryAfter is the positive time left until
\* the reset time.
C16_DenialIsRatelimitError ==
    (last.op = "get" /\ last.pre.remaining = 0 /\ last.pre.reset > last.at)
        => /\ last.err.type = "RatelimitError"
           /\ last.err.n = last.pre.reset - last.at
           /\ last.err.n > 0

\* C20: one get hands at most one request to the HTTP client: none when it
\* stops before client.Do, exactly one when client.Do fails or a response
\* (of any status) comes back.
C20_AtMostOneRequest ==
    last.op = "get"
        => /\ last.requests \in {0, 1}
           /\ last.err = URLError("Get") => last.requests = 1
           /\ last.received => last.requests = 1
           /\ (IsRatelimitError(last.err) \/ last.err = URLError("parse"))
                => last.requests = 0

C20_Witness ==
    /\ last.op = "get" /\ last.first /\ last.env.transport = "fail"
    /\ last.err = URLError("Get") /\ last.requests = 1

\* C22: every failure inside get reaches the caller as a non-nil error: a
\* request that cannot be built, a failed client.Do, a failed read of the
\* body, a rate-limit header that is not an integer.
C22_EveryFailureIsReturned ==
    (/\ last.op = "get"
     /\ \/ NewRequestFails(baseURL \o last.path)
        \/ last.env.transport = "fail"
        \/ last.received /\ last.env.readErr
        \/ last.received /\ last.sentRemaining.kind = "malformed"
        \/ last.received /\ last.sentReset.kind = "malformed")
        => last.err # NoError

\* C26: a get that received no response leaves the rate-limit state as it
\* was, and after a response each field holds either its former value or the
\* integer the response carried for it: nothing is counted up or down.
C26_OnlyResponsesWriteState ==
    last.op = "get"
        => /\ ~last.received => ratelimit = last.pre
           /\ ratelimit.remaining \in
                {last.pre.remaining} \cup
                    (IF last.received /\ last.sentRemaining.kind = "int"
                     THEN {last.sentRemaining.n} ELSE {})
           /\ ratelimit.reset \in
                {last.pre.reset} \cup
                    (IF last.received /\ last.sentReset.kind = "int"
                     THEN {last.sentReset.n} ELSE {})

C26_Witness ==
    /\ last.op = "get" /\ last.err = URLError("parse") /\ ~last.received
    /\ last.pre.remaining > 0 /\ last.pre.reset > 0 /\ ratelimit = last.pre

\* C28: get never returns data together with an error: when err is non-nil
\* the returned bytes are empty.
C28_NoBytesWithError ==
    (last.op = "get" /\ last.err # NoError) => Len(last.bytes) = 0

\* C30: the two search toQuery methods set keys, exclude, max and page
\* exactly as Args.toQuery does for the embedded Args, and set each of their
\* own keys exactly when the field is non-zero: name to the name, the integer
\* fields (score for MinScore) to their decimal form.
C30_OwnKeys ==
    [name |-> "Name", score |-> "MinScore", minMembers |-> "MinMembers",
     maxMembers |-> "MaxMembers", locationId |-> "LocationID"]

C30_SearchArgsEncodeLikeArgs ==
    fn.op \in {"ClanSearchArgs.toQuery", "TournamentSearchArgs.toQuery"}
        => LET q == fn.res.q
               emb == toQuery(EmbeddedOf(fn.arg))
           IN  /\ \A k \in {"keys", "exclude", "max", "page"} :
                    /\ k \in DOMAIN q <=> k \in DOMAIN emb
                    /\ k \in DOMAIN q => q[k] = emb[k]
               /\ \A k \in DOMAIN C30_OwnKeys :
                    IF C30_OwnKeys[k] \notin DOMAIN fn.arg THEN k \notin DOMAIN q
                    ELSE IF k = "name"
                    THEN /\ k \in DOMAIN q <=> fn.arg.Name # ""
                         /\ k \in DOMAIN q => q[k] = <<Word(fn.arg.Name)>>
                    ELSE /\ k \in DOMAIN q <=> fn.arg[C30_OwnKeys[k]] # 0
                         /\ k \in DOMAIN q => q[k] = Itoa(fn.arg[C30_OwnKeys[k]])

\* C25 (as claimed): a JSON string decodes to -1 without error, a JSON
\* integer decodes to itself, and the decoded value is -1 exactly when the
\* input was a string.
C25_MinusOneExactlyForStrings ==
    (fn.op = "UnmarshalJSON" /\ fn.arg.b.kind \in {"string", "int"})
        => /\ fn.arg.b.kind = "string" => fn.res.r = 0 - 1 /\ fn.res.err = NoError
           /\ fn.arg.b.kind = "int" => fn.res.r = fn.arg.b.n /\ fn.res.err = NoError
           /\ fn.res.r = 0 - 1 <=> fn.arg.b.kind = "string"

\* C25 (amended): a JSON string decodes to -1 without error, a JSON integer
\* decodes to itself, so the decoded value is -1 for every string and, among
\* the integers, for the integer -1 only.
C25_StringsAndMinusOneDecodeToMinusOne ==
    (fn.op = "UnmarshalJSON" /\ fn.arg.b.kind \in {"string", "int"})
        => /\ fn.arg.b.kind = "string" => fn.res.r = 0 - 1 /\ fn.res.err = NoError
           /\ fn.arg.b.kind = "int" => fn.res.r = fn.arg.b.n /\ fn.res.err = NoError
           /\ fn.res.r = 0 - 1
                <=> (fn.arg.b.kind = "string" \/ fn.arg.b.n = 0 - 1)

C25_Witness ==
    /\ fn.op = "UnmarshalJSON" /\ fn.arg.b.kind = "string" /\ Len(fn.arg.b.text) > 2
    /\ fn.arg.r # 0 - 1 /\ fn.res.r = 0 - 1 /\ fn.res.err = NoError

\* C23: every request handed to the HTTP client is a GET without a body to
\* the base URL followed by the path given to get, and its auth header is
\* the token the client was constructed with; a get that issues no request
\* builds none.
C23_RequestIsAuthenticatedGet ==
    last.op = "get"
        => IF last.requests = 0 THEN last.req = NoRequest
           ELSE /\ last.req.method = "GET"
                /\ last.req.body = NoBody
                /\ last.req.url = baseURL \o last.path
                /\ DOMAIN last.req.header = {"auth"}
                /\ last.req.header["auth"] = newToken

C23_Witness ==
    /\ last.op = "get" /\ last.requests = 1 /\ last.path = "/player/2P0LYQ/chests"
    /\ newToken = "KEY 2" /\ last.req.header["auth"] = "KEY 2"
    /\ last.req.url = "https://api.royaleapi.com/player/2P0LYQ/chests"

\* C24: whatever the client has done, Token is the token that was passed to
\* New, and it is not empty.
C24_TokenIsTheConstructionToken == Token = newToken /\ Token # ""

C24_Witness ==
    /\ fn.op = "GetClanWar" /\ last.received /\ ~last.first
    /\ ratelimit # ZeroRatelimit /\ Token = "KEY 2"

\* C27: when get returns an error, the endpoint method returns that error,
\* does not call json.Unmarshal and returns the zero value of its result.
C27_GetErrorIsPassedOn ==
    (fn.op \in DOMAIN Endpoints /\ last.err # NoError)
        => /\ fn.res.err = last.err
           /\ ~fn.res.decoded
           /\ fn.res.value = ZeroValue

C27_Witness ==
    /\ fn.op = "GetPlayer" /\ last.received /\ last.err = NumError("Atoi")
    /\ Len(last.bytes) > 0 /\ fn.res.err = NumError("Atoi")
    /\ ~fn.res.decoded /\ fn.res.value = ZeroValue

\* C29: the path an endpoint method hands to get begins with "/".
C29_PathBeginsWithSlash ==
    fn.op \in DOMAIN Endpoints
        => /\ last.path = fn.res.path
           /\ SubSeq(fn.res.path, 1, 1) = "/"

\* C21: accesses to the rate-limit state exclude one another: no admission
\* check runs while another goroutine is between the two field writes of
\* its update, and no two goroutines are between their field writes at once.
C21_RatelimitAccessIsExclusive ==
    /\ \A g \in Goroutines : ~goroutines[g].sawPartial
    /\ \A g \in Goroutines, h \in Goroutines :
            (goroutines[g].pc = "reset" /\ goroutines[h].pc = "reset") => g = h

====
